---------------------------- MODULE Spec2Model ----------------------------
(***************************************************************************)
(* Model of src/pitch/cleanup_pitch.py: CleanupPitch.execute, to_dict and  *)
(* save_raw.                                                               *)
(*                                                                         *)
(* Text is a sequence of characters, each character a string naming one    *)
(* code point ("a", "\n", "U+00E9").  Python values are tagged records:    *)
(*   [t |-> "str",  v |-> <<chars>>]      [t |-> "int",  v |-> n]          *)
(*   [t |-> "lit",  v |-> "null"|"true"|"false"]                           *)
(*   [t |-> "list", v |-> <<values>>]                                      *)
(*   [t |-> "dict", v |-> << <<key, value>>, ... >>]  insertion ordered    *)
(***************************************************************************)
EXTENDS Integers, Sequences, FiniteSets, TLC

(***************************************************************************)
(* Bounds of the model.                                                    *)
(***************************************************************************)
\* longest modelled model-client call, in clock ticks
MaxElapsed == 4

\* perf_counter resolution of the model: ticks per second
TicksPerSecond == 2

(***************************************************************************)
(* Characters.                                                             *)
(***************************************************************************)
NonAscii == {"U+00E9", "U+20AC"}

CodePoint(c) ==
    IF c = "U+00E9" THEN 233 ELSE IF c = "U+20AC" THEN 8364 ELSE 0

\* str.encode('utf-8'): number of bytes one character encodes to
Utf8Width(c) ==
    IF c \notin NonAscii THEN 1
    ELSE IF CodePoint(c) < 128 THEN 1
    ELSE IF CodePoint(c) < 2048 THEN 2
    ELSE IF CodePoint(c) < 65536 THEN 3
    ELSE 4

RECURSIVE Utf8Len(_)
\* len(text.encode('utf-8'))
Utf8Len(s) ==
    IF s = <<>> THEN 0 ELSE Utf8Width(Head(s)) + Utf8Len(Tail(s))

\* characters str.strip() removes and the JSON scanner skips
StripChars == {" ", "\n", "\t", "\r", "\f"}

JsonWhitespace == {" ", "\n", "\t", "\r"}

\* characters a JSON string may not contain unescaped (strict mode)
ControlChars == {"\n", "\t", "\r", "\f"}

Digits == <<"0", "1", "2", "3", "4", "5", "6", "7", "8", "9">>

HexDigits ==
    <<"0", "1", "2", "3", "4", "5", "6", "7", "8", "9", "a", "b", "c", "d", "e", "f">>

DigitSet == {Digits[i] : i \in 1..10}

DigitVal(c) == CHOOSE i \in 0..9 : Digits[i + 1] = c

IsHex(c) == \E i \in 1..16 : HexDigits[i] = c

HexVal(c) == CHOOSE i \in 0..15 : HexDigits[i + 1] = c

RECURSIVE LStrip(_)
LStrip(s) ==
    IF s # <<>> /\ Head(s) \in StripChars THEN LStrip(Tail(s)) ELSE s

RECURSIVE RStrip(_)
RStrip(s) ==
    IF s # <<>> /\ s[Len(s)] \in StripChars
    THEN RStrip(SubSeq(s, 1, Len(s) - 1)) ELSE s

\* str.strip()
Strip(s) == RStrip(LStrip(s))

(***************************************************************************)
(* Python values.                                                          *)
(***************************************************************************)
PyStr(s) == [t |-> "str", v |-> s]

PyInt(n) == [t |-> "int", v |-> n]

PyNone == [t |-> "lit", v |-> "null"]

PyLit(x) == [t |-> "lit", v |-> x]

PyList(xs) == [t |-> "list", v |-> xs]

PyDict(ps) == [t |-> "dict", v |-> ps]

Keys(d) == {d.v[i][1] : i \in 1..Len(d.v)}

HasKey(d, k) == \E i \in 1..Len(d.v) : d.v[i][1] = k

\* d[k]
GetItem(d, k) == d.v[CHOOSE i \in 1..Len(d.v) : d.v[i][1] = k][2]

\* d[k] = x : overwrite in place when the key exists, append otherwise
SetItem(d, k, x) ==
    IF HasKey(d, k)
    THEN PyDict([i \in 1..Len(d.v) |->
                 IF d.v[i][1] = k THEN <<k, x>> ELSE d.v[i]])
    ELSE PyDict(Append(d.v, <<k, x>>))

RECURSIVE Norm(_)
\* the value up to dict ordering: Python's == on JSON values
Norm(x) ==
    IF x.t = "dict"
    THEN [t |-> "dict", v |-> [k \in Keys(x) |-> Norm(GetItem(x, k))]]
    ELSE IF x.t = "list"
    THEN [t |-> "list", v |-> [i \in 1..Len(x.v) |-> Norm(x.v[i])]]
    ELSE x

PyEq(a, b) == Norm(a) = Norm(b)

(***************************************************************************)
(* Texts of the program and of its environment, character by character.    *)
(***************************************************************************)
\* the keys of OutputDocument, of the metadata and of to_dict's output
K_draft_markdown ==
    <<"d", "r", "a", "f", "t", "_", "m", "a", "r", "k", "d", "o", "w", "n">>
K_final_markdown ==
    <<"f", "i", "n", "a", "l", "_", "m", "a", "r", "k", "d", "o", "w", "n">>
K_metadata ==
    <<"m", "e", "t", "a", "d", "a", "t", "a">>
K_system_prompt ==
    <<"s", "y", "s", "t", "e", "m", "_", "p", "r", "o", "m", "p", "t">>
K_user_prompt ==
    <<"u", "s", "e", "r", "_", "p", "r", "o", "m", "p", "t">>
K_llm_classname ==
    <<"l", "l", "m", "_", "c", "l", "a", "s", "s", "n", "a", "m", "e">>
K_duration ==
    <<"d", "u", "r", "a", "t", "i", "o", "n">>
K_response_byte_count ==
    <<"r", "e", "s", "p", "o", "n", "s", "e", "_", "b", "y", "t", "e", "_", "c", "o", "u", "n", "t">>
\* keys of the client's own metadata
K_model_name ==
    <<"m", "o", "d", "e", "l", "_", "n", "a", "m", "e">>
K_num_output ==
    <<"n", "u", "m", "_", "o", "u", "t", "p", "u", "t">>
\* SYSTEM_PROMPT, abridged: the newline the literal starts with, the first
\* words, an inner line that starts with a tab, and the final newline
SYSTEM_PROMPT ==
    <<"\n", "Y", "o", "u", " ", "a", "r", "e", ".", "\n", "\t", "-", " ", "#", "\n">>
\* the messages of the three ValueErrors
MsgInvalidLLM ==
    <<"I", "n", "v", "a", "l", "i", "d", " ", "L", "L", "M", " ", "i", "n", "s", "t", "a", "n", "c", "e", ".">>
MsgInvalidQuery ==
    <<"I", "n", "v", "a", "l", "i", "d", " ", "q", "u", "e", "r", "y", ".">>
MsgInvalidJSON ==
    <<"I", "n", "v", "a", "l", "i", "d", " ", "J", "S", "O", "N", " ", "r", "e", "s", "p", "o", "n", "s", "e", " ", "f", "r", "o", "m", " ", "L", "L", "M", ".">>
\* Reply texts of the model client.  Valid JSON matching OutputDocument:
\* with escapes, with non-ASCII characters, and with extra keys named like
\* to_dict's own (surrounded by whitespace)
ReplyExample ==
    <<"{", "\"", "d", "r", "a", "f", "t", "_", "m", "a", "r", "k", "d", "o", "w", "n", "\"", ":", " ", "\"", "#", " ", "A", "\\", "n", "\"", ",", " ", "\"", "f", "i", "n", "a", "l", "_", "m", "a", "r", "k", "d", "o", "w", "n", "\"", ":", " ", "\"", "#", " ", "A", "\\", "n", "\"", "}">>
ReplyNonAscii ==
    <<"{", "\"", "d", "r", "a", "f", "t", "_", "m", "a", "r", "k", "d", "o", "w", "n", "\"", ":", "\"", "U+00E9", "\"", ",", "\"", "f", "i", "n", "a", "l", "_", "m", "a", "r", "k", "d", "o", "w", "n", "\"", ":", "\"", "U+20AC", " ", "\\", "u", "0", "0", "e", "9", "\"", "}">>
ReplyCollide ==
    <<" ", "{", "\"", "m", "e", "t", "a", "d", "a", "t", "a", "\"", ":", "1", ",", "\"", "d", "r", "a", "f", "t", "_", "m", "a", "r", "k", "d", "o", "w", "n", "\"", ":", "\"", "a", "\"", ",", "\"", "f", "i", "n", "a", "l", "_", "m", "a", "r", "k", "d", "o", "w", "n", "\"", ":", "\"", "\"", ",", "\"", "u", "s", "e", "r", "_", "p", "r", "o", "m", "p", "t", "\"", ":", "[", "n", "u", "l", "l", "]", "}", "\n">>
\* not JSON: plain text, a truncated object, nothing, a raw newline in a string
ReplyMarkdown ==
    <<"#", " ", "A">>
ReplyTruncated ==
    <<"{", "\"", "d", "r", "a", "f", "t", "_", "m", "a", "r", "k", "d", "o", "w", "n", "\"", ":", " ", "\"", "a", "\"">>
ReplyEmpty ==
    <<>>
ReplyRawNewline ==
    <<"{", "\"", "d", "r", "a", "f", "t", "_", "m", "a", "r", "k", "d", "o", "w", "n", "\"", ":", "\"", "a", "\n", "\"", ",", "\"", "f", "i", "n", "a", "l", "_", "m", "a", "r", "k", "d", "o", "w", "n", "\"", ":", "\"", "b", "\"", "}">>
\* valid JSON of another shape: a list, a missing field, fields that are not
\* strings, a number
ReplyList ==
    <<"[", "1", "]">>
ReplyMissing ==
    <<"{", "\"", "d", "r", "a", "f", "t", "_", "m", "a", "r", "k", "d", "o", "w", "n", "\"", ":", "\"", "a", "\"", "}">>
ReplyNonString ==
    <<"{", "\"", "d", "r", "a", "f", "t", "_", "m", "a", "r", "k", "d", "o", "w", "n", "\"", ":", "1", ",", "\"", "f", "i", "n", "a", "l", "_", "m", "a", "r", "k", "d", "o", "w", "n", "\"", ":", "n", "u", "l", "l", "}">>
ReplyScalar ==
    <<"-", "3", "0">>
\* user prompts
PromptA ==
    <<"{", "\"", "t", "\"", ":", " ", "\"", "x", "\"", "}">>
PromptB ==
    <<>>
\* what the file may hold before save_raw
OldGarbage ==
    <<"o", "l", "d">>
OldJson ==
    <<"{", "\"", "o", "l", "d", "\"", ":", " ", "1", "}">>
\* class names and model names of the clients
ClassOllama ==
    <<"O", "l", "l", "a", "m", "a", "_", "l", "l", "m">>
ClassMock ==
    <<"M", "o", "c", "k", "L", "L", "M">>
NameLlama ==
    <<"l", "l", "a", "m", "a", "3", ".", "1">>
NameMock ==
    <<"U+00E9">>
(***************************************************************************)
(* json.loads, on the grammar the model's texts use: objects, arrays,      *)
(* strings with escapes, integers and the three literals.                  *)
(***************************************************************************)
ParseFail == [ok |-> FALSE, val |-> PyNone, pos |-> 0]

ParseOk(x, p) == [ok |-> TRUE, val |-> x, pos |-> p]

RECURSIVE SkipWs(_, _)
\* index of the first character at or after i that is not whitespace
SkipWs(s, i) ==
    IF i <= Len(s) /\ s[i] \in JsonWhitespace THEN SkipWs(s, i + 1) ELSE i

\* the character a \uXXXX escape names, for the code points of the model
CharOfCodePoint(n) ==
    IF \E c \in NonAscii : CodePoint(c) = n
    THEN CHOOSE c \in NonAscii : CodePoint(c) = n
    ELSE "U+FFFD"

RECURSIVE ParseString(_, _, _)
\* s[i] is the character after the opening quote; acc the characters so far
ParseString(s, i, acc) ==
    IF i > Len(s) THEN ParseFail
    ELSE IF s[i] = "\"" THEN ParseOk(PyStr(acc), i + 1)
    ELSE IF s[i] \in ControlChars THEN ParseFail
    ELSE IF s[i] = "\\" THEN
        IF i + 1 > Len(s) THEN ParseFail
        ELSE IF s[i + 1] \in {"\"", "\\", "/"}
             THEN ParseString(s, i + 2, Append(acc, s[i + 1]))
        ELSE IF s[i + 1] = "n" THEN ParseString(s, i + 2, Append(acc, "\n"))
        ELSE IF s[i + 1] = "t" THEN ParseString(s, i + 2, Append(acc, "\t"))
        ELSE IF s[i + 1] = "r" THEN ParseString(s, i + 2, Append(acc, "\r"))
        ELSE IF s[i + 1] = "f" THEN ParseString(s, i + 2, Append(acc, "\f"))
        ELSE IF s[i + 1] = "u" THEN
            IF i + 5 <= Len(s) /\ \A j \in 2..5 : IsHex(s[i + j])
            THEN ParseString(s, i + 6,
                     Append(acc, CharOfCodePoint(
                         4096 * HexVal(s[i + 2]) + 256 * HexVal(s[i + 3])
                         + 16 * HexVal(s[i + 4]) + HexVal(s[i + 5]))))
            ELSE ParseFail
        ELSE ParseFail
    ELSE ParseString(s, i + 1, Append(acc, s[i]))

RECURSIVE ParseDigits(_, _, _)
ParseDigits(s, i, n) ==
    IF i <= Len(s) /\ s[i] \in DigitSet
    THEN ParseDigits(s, i + 1, 10 * n + DigitVal(s[i]))
    ELSE ParseOk(PyInt(n), i)

\* -?(0|[1-9][0-9]*)
ParseNumber(s, i) ==
    LET neg == s[i] = "-"
        j == IF neg THEN i + 1 ELSE i
    IN  IF j > Len(s) \/ s[j] \notin DigitSet THEN ParseFail
        ELSE LET r == IF s[j] = "0" THEN ParseOk(PyInt(0), j + 1)
                      ELSE ParseDigits(s, j, 0)
             IN  IF neg THEN ParseOk(PyInt(0 - r.val.v), r.pos) ELSE r

StartsWith(s, i, w) ==
    /\ i + Len(w) - 1 <= Len(s)
    /\ SubSeq(s, i, i + Len(w) - 1) = w

RECURSIVE ParseValue(_, _), ParseArray(_, _, _), ParseObject(_, _, _)
\* s[i] is the first character of a value
ParseValue(s, i) ==
    IF i > Len(s) THEN ParseFail
    ELSE IF s[i] = "\"" THEN ParseString(s, i + 1, <<>>)
    ELSE IF s[i] = "{" THEN
        LET j == SkipWs(s, i + 1)
        IN  IF j <= Len(s) /\ s[j] = "}" THEN ParseOk(PyDict(<<>>), j + 1)
            ELSE ParseObject(s, j, PyDict(<<>>))
    ELSE IF s[i] = "[" THEN
        LET j == SkipWs(s, i + 1)
        IN  IF j <= Len(s) /\ s[j] = "]" THEN ParseOk(PyList(<<>>), j + 1)
            ELSE ParseArray(s, j, <<>>)
    ELSE IF StartsWith(s, i, <<"n", "u", "l", "l">>) THEN ParseOk(PyNone, i + 4)
    ELSE IF StartsWith(s, i, <<"t", "r", "u", "e">>)
         THEN ParseOk(PyLit("true"), i + 4)
    ELSE IF StartsWith(s, i, <<"f", "a", "l", "s", "e">>)
         THEN ParseOk(PyLit("false"), i + 5)
    ELSE IF s[i] = "-" \/ s[i] \in DigitSet THEN ParseNumber(s, i)
    ELSE ParseFail

\* s[i] is the first character of an array item; acc the items so far
ParseArray(s, i, acc) ==
    LET r == ParseValue(s, i)
        j == SkipWs(s, r.pos)
    IN  IF ~r.ok \/ j > Len(s) THEN ParseFail
        ELSE IF s[j] = "]" THEN ParseOk(PyList(Append(acc, r.val)), j + 1)
        ELSE IF s[j] = "," THEN ParseArray(s, SkipWs(s, j + 1), Append(acc, r.val))
        ELSE ParseFail

\* s[i] is where a key must start; acc the dict so far (a repeated key
\* keeps its first position and takes the last value)
ParseObject(s, i, acc) ==
    IF i > Len(s) \/ s[i] # "\"" THEN ParseFail
    ELSE LET k == ParseString(s, i + 1, <<>>)
             c == SkipWs(s, k.pos)
         IN  IF ~k.ok \/ c > Len(s) \/ s[c] # ":" THEN ParseFail
             ELSE LET r == ParseValue(s, SkipWs(s, c + 1))
                      j == SkipWs(s, r.pos)
                      d == SetItem(acc, k.val.v, r.val)
                  IN  IF ~r.ok \/ j > Len(s) THEN ParseFail
                      ELSE IF s[j] = "}" THEN ParseOk(d, j + 1)
                      ELSE IF s[j] = "," THEN ParseObject(s, SkipWs(s, j + 1), d)
                      ELSE ParseFail

\* json.loads(text): ok = FALSE stands for json.JSONDecodeError
json_loads(s) ==
    LET r == ParseValue(s, SkipWs(s, 1))
    IN  IF r.ok /\ SkipWs(s, r.pos) = Len(s) + 1 THEN r ELSE ParseFail

(***************************************************************************)
(* json.dumps(value, indent=2), ensure_ascii left at its default.          *)
(***************************************************************************)
RECURSIVE Concat(_)
Concat(ss) == IF ss = <<>> THEN <<>> ELSE Head(ss) \o Concat(Tail(ss))

RECURSIVE IntToChars(_)
IntToChars(n) ==
    IF n < 0 THEN <<"-">> \o IntToChars(0 - n)
    ELSE IF n < 10 THEN <<Digits[n + 1]>>
    ELSE IntToChars(n \div 10) \o <<Digits[(n % 10) + 1]>>

Hex4(n) ==
    <<HexDigits[((n \div 4096) % 16) + 1], HexDigits[((n \div 256) % 16) + 1],
      HexDigits[((n \div 16) % 16) + 1], HexDigits[(n % 16) + 1]>>

EscapeChar(c) ==
    IF c = "\"" THEN <<"\\", "\"">>
    ELSE IF c = "\\" THEN <<"\\", "\\">>
    ELSE IF c = "\n" THEN <<"\\", "n">>
    ELSE IF c = "\t" THEN <<"\\", "t">>
    ELSE IF c = "\r" THEN <<"\\", "r">>
    ELSE IF c = "\f" THEN <<"\\", "f">>
    ELSE IF c \in NonAscii THEN <<"\\", "u">> \o Hex4(CodePoint(c))
    ELSE <<c>>

DumpString(s) ==
    <<"\"">> \o Concat([i \in 1..Len(s) |-> EscapeChar(s[i])]) \o <<"\"">>

Indent(level) == [i \in 1..(2 * level) |-> " "]

RECURSIVE Dump(_, _)
Dump(x, level) ==
    IF x.t = "str" THEN DumpString(x.v)
    ELSE IF x.t = "int" THEN IntToChars(x.v)
    ELSE IF x.t = "lit" THEN
        (IF x.v = "null" THEN <<"n", "u", "l", "l">>
         ELSE IF x.v = "true" THEN <<"t", "r", "u", "e">>
         ELSE <<"f", "a", "l", "s", "e">>)
    ELSE IF x.t = "list" THEN
        (IF x.v = <<>> THEN <<"[", "]">>
         ELSE <<"[">>
              \o Concat([i \in 1..Len(x.v) |->
                    (IF i = 1 THEN <<>> ELSE <<",">>)
                    \o <<"\n">> \o Indent(level + 1) \o Dump(x.v[i], level + 1)])
              \o <<"\n">> \o Indent(level) \o <<"]">>)
    ELSE
        (IF x.v = <<>> THEN <<"{", "}">>
         ELSE <<"{">>
              \o Concat([i \in 1..Len(x.v) |->
                    (IF i = 1 THEN <<>> ELSE <<",">>)
                    \o <<"\n">> \o Indent(level + 1) \o DumpString(x.v[i][1])
                    \o <<":", " ">> \o Dump(x.v[i][2], level + 1)])
              \o <<"\n">> \o Indent(level) \o <<"}">>)

\* json.dumps(x, indent=2)
json_dumps(x) == Dump(x, 0)

(***************************************************************************)
(* The model client (llama_index LLM), as execute sees it.                 *)
(***************************************************************************)
LlmOllama ==
    [isLLM |-> TRUE,
     class_name |-> ClassOllama,
     metadata |-> PyDict(<< <<K_model_name, PyStr(NameLlama)>>,
                            <<K_num_output, PyInt(256)>> >>)]

\* a client whose own metadata already has a "duration" entry
LlmMock ==
    [isLLM |-> TRUE,
     class_name |-> ClassMock,
     metadata |-> PyDict(<< <<K_duration, PyInt(99)>>,
                            <<K_model_name, PyStr(NameMock)>> >>)]

\* an argument that is not an LLM instance
NotAnLlm ==
    [isLLM |-> FALSE, class_name |-> <<>>, metadata |-> PyDict(<<>>)]

Clients == {LlmOllama, LlmMock, NotAnLlm}

\* user_prompt arguments: two strings and a value that is not a string
Prompts == {PyStr(PromptA), PyStr(PromptB), PyInt(7)}

\* what chat_response.message.content can be
Replies ==
    {ReplyExample, ReplyNonAscii, ReplyCollide, ReplyMarkdown, ReplyTruncated,
     ReplyEmpty, ReplyRawNewline, ReplyList, ReplyMissing, ReplyNonString,
     ReplyScalar}

(***************************************************************************)
(* CleanupPitch.execute                                                    *)
(***************************************************************************)
\* isinstance(llm, LLM)
IsLLM(llm) == llm.isLLM

\* the check of user_prompt left out
IsStr_any(x) == TRUE

\* isinstance(user_prompt, str)
IsStr(x) == x.t = "str"

\* int(end_time - start_time): rounds down
duration_floor(elapsed) == elapsed \div TicksPerSecond

\* int(ceil(end_time - start_time)), the difference given in clock ticks
duration_of(elapsed) ==
    IF elapsed % TicksPerSecond = 0
    THEN elapsed \div TicksPerSecond
    ELSE (elapsed \div TicksPerSecond) + 1

\* len(chat_response.message.content): counts characters
response_byte_count_chars(content) == Len(content)

\* len(chat_response.message.content.encode('utf-8'))
response_byte_count_of(content) == Utf8Len(content)

\* dict(llm.metadata) with the three entries execute adds
metadata_of(llm, duration, response_byte_count) ==
    SetItem(SetItem(SetItem(llm.metadata,
                            K_llm_classname, PyStr(llm.class_name)),
                    K_duration, PyInt(duration)),
            K_response_byte_count, PyInt(response_byte_count))

\* the two prompts passed in each other's place
CleanupPitch_swapped(system_prompt, user_prompt, response, metadata) ==
    [system_prompt |-> user_prompt, user_prompt |-> system_prompt,
     response |-> response, metadata |-> metadata]

\* the dataclass constructor
CleanupPitch(system_prompt, user_prompt, response, metadata) ==
    [system_prompt |-> system_prompt, user_prompt |-> user_prompt,
     response |-> response, metadata |-> metadata]

NoChat == <<>>

\* raise ValueError(msg) [from cause]
ExecRaise(msg, cause, calls, chat) ==
    [status |-> "ValueError", msg |-> msg, cause |-> cause, ret |-> <<>>,
     calls |-> calls, chat |-> chat]

\* a second chat call before giving up
raise_invalid_json_retry(calls, chat) ==
    ExecRaise(MsgInvalidJSON, "JSONDecodeError",
              calls \o <<"chat">>, chat \o chat)

\* except json.JSONDecodeError as e: raise ValueError(...) from e
raise_invalid_json(calls, chat) ==
    ExecRaise(MsgInvalidJSON, "JSONDecodeError", calls, chat)

\* The outcome of CleanupPitch.execute(llm, user_prompt) when the client's
\* chat call, if it is made, answers `content` after `elapsed` clock ticks:
\*   calls  the client methods called, in order
\*   chat   the content and duration of each chat call made
\*   ret    <<the CleanupPitch returned>>, or <<>> when an error is raised
execute(llm, user_prompt, content, elapsed) ==
    IF ~IsLLM(llm) THEN ExecRaise(MsgInvalidLLM, "none", <<>>, NoChat)
    ELSE IF ~IsStr(user_prompt)
    THEN ExecRaise(MsgInvalidQuery, "none", <<>>, NoChat)
    ELSE
        LET system_prompt == Strip(SYSTEM_PROMPT)
            calls == <<"as_structured_llm", "chat", "metadata", "class_name">>
            chat == <<[content |-> content, elapsed |-> elapsed]>>
            duration == duration_of(elapsed)
            response_byte_count == response_byte_count_of(content)
            metadata == metadata_of(llm, duration, response_byte_count)
            json_response == json_loads(content)
        IN  IF ~json_response.ok
            THEN raise_invalid_json(calls, chat)
            ELSE [status |-> "ok", msg |-> <<>>, cause |-> "none",
                  ret |-> <<CleanupPitch(PyStr(system_prompt), user_prompt,
                                         json_response.val, metadata)>>,
                  calls |-> calls, chat |-> chat]

(***************************************************************************)
(* CleanupPitch.to_dict                                                    *)
(*                                                                         *)
(* The method works on two objects: self.response and the dict d it        *)
(* returns.  heap maps the names of the objects to their contents, so that *)
(* a write through d reaches self.response exactly when both name the same *)
(* object.                                                                 *)
(***************************************************************************)
\* d = self.response: no copy, d names the response itself
copy_of_alias(ref) == ref

\* self.response.copy(): the name of the object d is bound to
copy_of(ref) == "d"

\* d.setdefault(k, x): an existing key keeps its value
store_if_absent(heap, ref, k, x) ==
    IF HasKey(heap[ref], k) THEN heap ELSE [heap EXCEPT ![ref] = SetItem(@, k, x)]

\* d[k] = x on the object named ref
store(heap, ref, k, x) == [heap EXCEPT ![ref] = SetItem(@, k, x)]

DictRaise(status, self) ==
    [status |-> status, ret |-> <<>>, self |-> self]

build_dict(self, include_metadata, include_system_prompt, include_user_prompt) ==
    IF self.response.t \notin {"dict", "list"}
    THEN DictRaise("AttributeError", self)
    ELSE IF /\ self.response.t = "list"
            /\ include_metadata \/ include_system_prompt \/ include_user_prompt
    THEN DictRaise("TypeError", self)
    ELSE
        LET d == copy_of("response")
            h0 == [response |-> self.response, d |-> self.response]
            h1 == IF include_metadata
                  THEN store(h0, d, K_metadata, self.metadata) ELSE h0
            h2 == IF include_system_prompt
                  THEN store(h1, d, K_system_prompt, self.system_prompt) ELSE h1
            h3 == IF include_user_prompt
                  THEN store(h2, d, K_user_prompt, self.user_prompt) ELSE h2
        IN  [status |-> "ok", ret |-> <<h3[d]>>,
             self |-> [self EXCEPT !.response = h3.response]]

\* the flags ignored: every optional key is always added
to_dict_ignoring_flags(self, include_metadata, include_system_prompt, include_user_prompt) ==
    build_dict(self, TRUE, TRUE, TRUE)

\* self.to_dict(include_metadata, include_system_prompt, include_user_prompt):
\*   ret   <<the mapping returned>>, or <<>> when an error is raised
\*   self  the object after the call
to_dict(self, include_metadata, include_system_prompt, include_user_prompt) ==
    build_dict(self, include_metadata, include_system_prompt, include_user_prompt)

(***************************************************************************)
(* CleanupPitch.save_raw                                                   *)
(***************************************************************************)
\* open(file_path, 'a'): the old content is kept
open_a(old) == old

\* open(file_path, 'w'): the content of the file once it is open
open_w(old) == <<>>

\* self.save_raw(file_path), the file holding `old`; io says whether open
\* and write succeed, and how many characters a failed write leaves behind
save_raw(self, old, io) ==
    IF ~io.open_ok
    THEN [status |-> "OSError", file |-> old, self |-> self]
    ELSE
        LET opened == open_w(old)
            r == to_dict(self, TRUE, TRUE, TRUE)
        IN  IF r.status # "ok"
            THEN [status |-> r.status, file |-> opened, self |-> r.self]
            ELSE IF ~io.write_ok
            THEN [status |-> "OSError",
                  file |-> opened \o SubSeq(json_dumps(r.ret[1]), 1, io.written),
                  self |-> r.self]
            ELSE [status |-> "ok",
                  file |-> opened \o json_dumps(r.ret[1]), self |-> r.self]

(***************************************************************************)
(* The state machine: a caller that runs execute, and calls to_dict and    *)
(* save_raw on the result it got.                                          *)
(***************************************************************************)
VARIABLES
    result,   \* <<the CleanupPitch the last execute returned>>, or <<>>
    file,     \* the content of the file at file_path
    call,     \* the last call: operation, arguments, state it started from
    out       \* the outcome of the last call

vars == <<result, file, call, out>>

\* failed writes leave at most this many characters in the file
MaxPartial == 1

InitialFiles == {<<>>, OldGarbage, OldJson}

IoOk == [open_ok |-> TRUE, write_ok |-> TRUE, written |-> 0]

IoOutcomes ==
    {IoOk, [open_ok |-> FALSE, write_ok |-> FALSE, written |-> 0]}
    \cup {[open_ok |-> TRUE, write_ok |-> FALSE, written |-> n] :
             n \in 0..MaxPartial}

NoFlags == <<FALSE, FALSE, FALSE>>

Call(op, llm, user_prompt, flags, io, before, old) ==
    [op |-> op, llm |-> llm, user_prompt |-> user_prompt, flags |-> flags,
     io |-> io, before |-> before, old |-> old]

Out(status, ret) ==
    [status |-> status, msg |-> <<>>, cause |-> "none", ret |-> ret,
     calls |-> <<>>, chat |-> NoChat]

Init ==
    /\ result = <<>>
    /\ file \in InitialFiles
    /\ call = Call("none", NotAnLlm, PyNone, NoFlags, IoOk, <<>>, <<>>)
    /\ out = Out("none", <<>>)

\* result = CleanupPitch.execute(llm, user_prompt), by a caller that holds no
\* result yet: once it has one, it goes on to serialize it
Execute ==
    /\ result = <<>>
    /\ \E llm \in Clients, user_prompt \in Prompts,
       content \in Replies, elapsed \in 0..MaxElapsed :
         LET r == execute(llm, user_prompt, content, elapsed)
         IN  /\ call' = Call("execute", llm, user_prompt, NoFlags, IoOk, <<>>, <<>>)
             /\ out' = r
             /\ result' = r.ret
             /\ UNCHANGED file

\* result.to_dict(include_metadata, include_system_prompt, include_user_prompt)
ToDict ==
    /\ result # <<>>
    /\ \E im \in BOOLEAN, isp \in BOOLEAN, iup \in BOOLEAN :
        LET r == to_dict(result[1], im, isp, iup)
        IN  /\ call' = Call("to_dict", NotAnLlm, PyNone, <<im, isp, iup>>,
                            IoOk, result, <<>>)
            /\ out' = Out(r.status, r.ret)
            /\ result' = <<r.self>>
            /\ UNCHANGED file

\* result.save_raw(file_path)
SaveRaw ==
    /\ result # <<>>
    /\ \E io \in IoOutcomes :
        LET r == save_raw(result[1], file, io)
        IN  /\ call' = Call("save_raw", NotAnLlm, PyNone, NoFlags, io,
                            result, file)
            /\ out' = Out(r.status, <<>>)
            /\ result' = <<r.self>>
            /\ file' = r.file

Next == Execute \/ ToDict \/ SaveRaw

Spec == Init /\ [][Next]_vars

TypeOK ==
    /\ Len(result) <= 1
    /\ call.op \in {"none", "execute", "to_dict", "save_raw"}
    /\ out.status \in {"none", "ok", "ValueError", "AttributeError",
                       "TypeError", "OSError"}
(***************************************************************************)
(* Properties.                                                             *)
(***************************************************************************)
Executed == call.op = "execute"

ChatCalls == Len(SelectSeq(out.calls, LAMBDA c : c = "chat"))

\* the reply texts of the model that are not JSON
NonJsonReplies == {ReplyMarkdown, ReplyTruncated, ReplyEmpty, ReplyRawNewline}

\* x conforms to OutputDocument: a mapping with draft_markdown and
\* final_markdown, both strings
MatchesSchema(x) ==
    /\ x.t = "dict"
    /\ HasKey(x, K_draft_markdown) /\ GetItem(x, K_draft_markdown).t = "str"
    /\ HasKey(x, K_final_markdown) /\ GetItem(x, K_final_markdown).t = "str"

ProvenanceKeys == {K_metadata, K_system_prompt, K_user_prompt}

\* C1: when the reply text is not valid JSON, execute raises the
\* malformed-response error ValueError("Invalid JSON response from LLM.")
\* caused by the JSONDecodeError, returns no CleanupPitch, and has called
\* the client's chat exactly once.
C1_MalformedReplyFails ==
    (/\ Executed
     /\ \E i \in 1..Len(out.chat) :
            \/ out.chat[i].content \in NonJsonReplies
            \/ ~json_loads(out.chat[i].content).ok)
    => /\ out.status = "ValueError"
       /\ out.msg = MsgInvalidJSON
       /\ out.cause = "JSONDecodeError"
       /\ out.ret = <<>>
       /\ result = <<>>
       /\ Len(out.chat) = 1
       /\ ChatCalls = 1

C1_Witness ==
    /\ Executed
    /\ out.chat # NoChat
    /\ out.chat[1].content = ReplyTruncated
    /\ out.status = "ValueError"
    /\ out.cause = "JSONDecodeError"

\* C2: every CleanupPitch execute returns has a response that is a mapping
\* with draft_markdown and final_markdown, both strings; for a reply of any
\* other shape execute returns nothing.
C2_OnlySchemaShapeReturned ==
    (Executed /\ out.ret # <<>>) => MatchesSchema(out.ret[1].response)

\* C3: with a valid client and a string user_prompt, when the reply is
\* valid JSON matching OutputDocument, execute returns a CleanupPitch whose
\* response is the parsed reply, whose user_prompt is the argument and whose
\* system_prompt is SYSTEM_PROMPT without its surrounding whitespace.
IsTrimOf(s, raw) ==
    \E i \in 1..Len(raw), j \in 1..Len(raw) :
        /\ s = SubSeq(raw, i, j)
        /\ raw[i] \notin StripChars /\ raw[j] \notin StripChars
        /\ \A k \in 1..Len(raw) : (k < i \/ k > j) => raw[k] \in StripChars

ExampleResponse ==
    PyDict(<< <<K_draft_markdown, PyStr(<<"#", " ", "A", "\n">>)>>,
              <<K_final_markdown, PyStr(<<"#", " ", "A", "\n">>)>> >>)

C3_SchemaReplyReturned ==
    (/\ Executed
     /\ call.llm.isLLM /\ call.user_prompt.t = "str"
     /\ out.chat # NoChat
     /\ json_loads(out.chat[1].content).ok
     /\ MatchesSchema(json_loads(out.chat[1].content).val))
    => /\ out.status = "ok"
       /\ Len(out.ret) = 1
       /\ result = out.ret
       /\ MatchesSchema(out.ret[1].response)
       /\ PyEq(out.ret[1].response, json_loads(out.chat[1].content).val)
       /\ out.chat[1].content = ReplyExample
              => PyEq(out.ret[1].response, ExampleResponse)
       /\ out.ret[1].user_prompt = call.user_prompt
       /\ out.ret[1].system_prompt.t = "str"
       /\ IsTrimOf(out.ret[1].system_prompt.v, SYSTEM_PROMPT)

C3_Witness ==
    /\ Executed
    /\ out.status = "ok"
    /\ call.llm = LlmMock
    /\ call.user_prompt = PyStr(PromptA)
    /\ out.chat[1].content = ReplyExample
    /\ MatchesSchema(result[1].response)

\* C4: with an llm that is not an LLM instance, or a user_prompt that is not
\* a string, execute raises ValueError before any call to the client (no
\* as_structured_llm, chat, metadata or class_name) and returns nothing.
C4_InvalidArgumentFailsFirst ==
    (Executed /\ (~call.llm.isLLM \/ call.user_prompt.t # "str"))
    => /\ out.status = "ValueError"
       /\ out.msg = (IF ~call.llm.isLLM THEN MsgInvalidLLM ELSE MsgInvalidQuery)
       /\ out.calls = <<>>
       /\ out.chat = NoChat
       /\ out.ret = <<>>
       /\ result = <<>>

C4_Witness ==
    /\ Executed
    /\ call.llm.isLLM
    /\ call.user_prompt = PyInt(7)
    /\ out.status = "ValueError"
    /\ out.msg = MsgInvalidQuery

\* the CleanupPitch the last to_dict or save_raw was called on
Before == call.before[1]

\* response: dict, as the dataclass declares it
ResponseIsDict(r) == r.response.t = "dict"

C7_SaveRoundTrip ==
    (call.op = "save_raw" /\ out.status = "ok")
    => LET back == json_loads(file)
           want == to_dict(Before, TRUE, TRUE, TRUE)
       IN  /\ want.status = "ok"
           /\ back.ok
           /\ back.val.t = "dict"
           /\ PyEq(back.val, want.ret[1])
           /\ Keys(back.val) = Keys(Before.response) \cup ProvenanceKeys
           /\ PyEq(GetItem(back.val, K_metadata), Before.metadata)

C7_Witness ==
    /\ call.op = "save_raw"
    /\ out.status = "ok"
    /\ call.old = OldJson
    /\ file # OldJson
    /\ \E i \in 1..Len(Before.response.v) :
           /\ Before.response.v[i][2].t = "str"
           /\ \E j \in 1..Len(Before.response.v[i][2].v) :
                  Before.response.v[i][2].v[j] \in NonAscii

\* C8: the duration in the metadata of a returned CleanupPitch is a
\* non-negative integer, the ceiling of the elapsed time of the chat call in
\* seconds (so at least its floor).
C8_DurationIsCeiling ==
    (Executed /\ out.status = "ok")
    => LET d == GetItem(out.ret[1].metadata, K_duration)
           elapsed == out.chat[1].elapsed
       IN  /\ HasKey(out.ret[1].metadata, K_duration)
           /\ d.t = "int"
           /\ d.v \in Nat
           /\ d.v * TicksPerSecond >= elapsed
           /\ (d.v - 1) * TicksPerSecond < elapsed
           /\ d.v >= elapsed \div TicksPerSecond

C8_Witness ==
    /\ Executed
    /\ out.status = "ok"
    /\ out.chat[1].elapsed > TicksPerSecond
    /\ out.chat[1].elapsed % TicksPerSecond # 0
    /\ GetItem(result[1].metadata, K_duration).v
           = (out.chat[1].elapsed \div TicksPerSecond) + 1

\* C9: the response_byte_count in the metadata of a returned CleanupPitch is
\* the number of bytes of the UTF-8 encoding of the reply text that was
\* parsed: one per character, plus one for each two-byte character and two
\* for each three-byte character.
CountOf(s, c) == Cardinality({i \in 1..Len(s) : s[i] = c})

C9_ByteCountOfRawReply ==
    (Executed /\ out.status = "ok")
    => LET content == out.chat[1].content
       IN  /\ HasKey(out.ret[1].metadata, K_response_byte_count)
           /\ GetItem(out.ret[1].metadata, K_response_byte_count)
                  = PyInt(Len(content) + CountOf(content, "U+00E9")
                          + 2 * CountOf(content, "U+20AC"))
           /\ PyEq(out.ret[1].response, json_loads(content).val)

C9_Witness ==
    /\ Executed
    /\ out.status = "ok"
    /\ out.chat[1].content = ReplyNonAscii
    /\ GetItem(result[1].metadata, K_response_byte_count) = PyInt(53)
    /\ Len(out.chat[1].content) = 50

\* C10: to_dict (with any flags) and save_raw leave the CleanupPitch as it
\* was: response, metadata, system_prompt and user_prompt are unchanged, and
\* the response gets no metadata, system_prompt or user_prompt key.
C10_ResultUnchanged ==
    (call.op \in {"to_dict", "save_raw"})
    => /\ result = call.before
       /\ result[1].response = Before.response
       /\ result[1].metadata = Before.metadata
       /\ result[1].system_prompt = Before.system_prompt
       /\ result[1].user_prompt = Before.user_prompt

C10_Witness ==
    /\ call.op = "to_dict"
    /\ call.flags = <<TRUE, TRUE, TRUE>>
    /\ out.status = "ok"
    /\ ProvenanceKeys \cap Keys(Before.response) = {}
    /\ ProvenanceKeys \subseteq Keys(out.ret[1])
    /\ ProvenanceKeys \cap Keys(result[1].response) = {}
============================================================================
